---- MODULE Spec2Model ----
(***************************************************************************)
(* Eufy desktop monitor: the event handler MonitorLogic.handle with its    *)
(* Notifier and IncidentLog (eufy_desktop_gui.py), the transport           *)
(* WSClient.run with the GUI queue polled by App._poll_queue, and the      *)
(* headless monitor EufyClient.run / EufyMonitor.handle_event              *)
(* (eufy_monitor_ws.py).                                                   *)
(*                                                                         *)
(* JSON values are modelled as strings: "None" is null or an absent key,   *)
(* "True" / "False" are the JSON booleans, "" is the empty string.         *)
(* Time is in seconds; every handler call reads the clock once.            *)
(***************************************************************************)
EXTENDS Integers, Sequences, FiniteSets, TLC

VARIABLES
    clock,           \* wall clock (time.time() / datetime.now()), seconds
    devices,         \* MonitorLogic.devices: sn -> [name, online, last_event]
    device_last_ok,  \* MonitorLogic.device_last_ok: sn -> time
    last,            \* Notifier._last: key -> time of the last fired call
    call,            \* the handle call just made: branch, serial, hint, state before, sink failure
    added,           \* incidents IncidentLog.add appended during that call
    notes,           \* notifications notification.notify was asked to show during that call
    sunk,            \* items handed to gui_sink during that call
    raised,          \* that call ended by an exception propagating to its caller
    handled,         \* number of calls made so far
    fired_at,        \* key -> time of the last call of Notifier.show that notified
    queue,           \* App.queue: the items put and not yet taken
    pc,              \* where WSClient.run is suspended
    abandoned,       \* the event loop was stopped with run() still pending
    thread_alive,    \* App.ws_thread.is_alive()
    running,         \* number of transport threads started and not yet ended
    stop_set,        \* WSClient._stop.is_set()
    loop_running,    \* App.loop.is_running()
    loop_stop,       \* loop.stop has been scheduled by call_soon_threadsafe
    timer,           \* seconds left of asyncio.sleep(5)
    hs_sent,         \* commands sent on the current connection
    received,        \* number of raw messages received so far
    produced,        \* the messages put as ("event", msg), in order
    last_report,     \* the last status the running transport has put, "none" before the first
    logic_handled,   \* the messages passed to MonitorLogic.handle, in order
    gui,             \* what the GUI thread is doing
    status,          \* App.status
    btn_connect,     \* btn_connect is enabled
    btn_disconnect   \* btn_disconnect is enabled

appVars == <<queue, pc, abandoned, thread_alive, running, stop_set, loop_running, loop_stop, timer,
             hs_sent, received, produced, last_report, logic_handled, gui, status, btn_connect,
             btn_disconnect>>
logicVars == <<clock, devices, device_last_ok, last, call, added, notes, sunk, raised, handled>>
nonLogicVars == <<fired_at, appVars>>
vars == <<logicVars, nonLogicVars>>

----------------------------------------------------------------------------
(* Values *)

None == "None"
True == "True"
False == "False"
Missing == "<missing>"      \* the key "type" is not in the message
NotStr == "<number>"        \* a JSON value that is not a string

Truthy(v) == v \notin {None, "", False}
Or(a, b) == IF Truthy(a) THEN a ELSE b
IsBool(v) == v \in {True, False}
PyBool(b) == IF b THEN True ELSE False

offline_grace_seconds == 60
cooldown == 90
LastEventMax == 120

\* the instants at which calls are made
TimePoints == {0, 59, 60, 120}
MaxHandled == 3

----------------------------------------------------------------------------
(* Notifier (eufy_desktop_gui.py 17-28) *)

\* the cooldown test with the boundary on the wrong side
SuppressedAtBoundary(lst, key, t) ==
    Truthy(key) /\ key \in DOMAIN lst /\ t - lst[key] <= cooldown

\* line 23: the call returns without notifying
Suppressed(lst, key, t) ==
    Truthy(key) /\ key \in DOMAIN lst /\ t - lst[key] < cooldown

\* line 24: the map after a call that was not suppressed
Recorded(lst, key, t) ==
    IF Truthy(key)
    THEN [k \in DOMAIN lst \cup {key} |-> IF k = key THEN t ELSE lst[k]]
    ELSE lst

\* show recording the time of every attempt, suppressed or not
showRecordingAttempts(st, title, key, t) ==
    [st EXCEPT !.last = Recorded(st.last, key, t),
               !.notes = IF Suppressed(st.last, key, t) THEN st.notes
                         ELSE Append(st.notes, [title |-> title, key |-> key])]

\* Notifier.show on the handler's state st; notification.notify may raise,
\* which show swallows (lines 25-28), so the call always returns
show(st, title, key, t) ==
    IF Suppressed(st.last, key, t)
    THEN st
    ELSE [st EXCEPT !.last = Recorded(st.last, key, t),
                    !.notes = Append(st.notes, [title |-> title, key |-> key])]

(* IncidentLog.add (eufy_desktop_gui.py 47-52): one INSERT per call *)
add(st, source, type_, title) ==
    [st EXCEPT !.added = Append(st.added, [source |-> source, type |-> type_, title |-> title])]

(* gui_sink(kind, payload) *)
gui_sink(st, item) == [st EXCEPT !.sunk = Append(st.sunk, item)]

device_update(sn, name, online, last_event) ==
    [kind |-> "device_update", sn |-> sn, name |-> name, online |-> online, text |-> last_event]
log_line(text) ==
    [kind |-> "log", sn |-> None, name |-> None, online |-> None, text |-> text]

----------------------------------------------------------------------------
(* MonitorLogic (eufy_desktop_gui.py 87-187) *)

\* a dict that is absent or {} : every .get() on it gives None
NoProps == [online |-> None, state |-> None, message |-> None]
DictOr(a, b) == IF a # NoProps THEN a ELSE b

\* str.lower() on the type strings that occur
Lower(t) ==
    CASE t = "Devices" -> "devices"
      [] t = "Device Update" -> "device update"
      [] t = "EVENT" -> "event"
      [] t = "Error" -> "error"
      [] OTHER -> t

\* an assignment that replaces the dict by one with the single key
PutAlone(map, key, value) == [k \in {key} |-> value]

\* d[key] = value on a dict
Put(map, key, value) ==
    [k \in DOMAIN map \cup {key} |-> IF k = key THEN value ELSE map[k]]

\* line 115
EntrySerial(d) == Or(d.serial_number, Or(d.device_sn, d.station_sn))
\* line 116
EntryName(d) == Or(d.name, Or(d.device_name, Or(d.station_name, EntrySerial(d))))
\* line 117
EntryOnline(d) == d.state \in {"online", "connected"} \/ Truthy(d.online)

\* the loop body reporting a listed device that is not online
SnapshotEntryFlagging(st, d, now) ==
    LET sn == EntrySerial(d)
        name == EntryName(d)
        online == PyBool(EntryOnline(d))
        st1 == [st EXCEPT !.devices = Put(st.devices, sn,
                              [name |-> name, online |-> online, last_event |-> None])]
        st2 == IF online = True
               THEN [st1 EXCEPT !.device_last_ok = Put(st1.device_last_ok, sn, now)]
               ELSE add(show(st1, "Eufy: urzadzenie offline", "off_" \o sn, now),
                        name, "incident", "Device offline")
    IN gui_sink(st2, device_update(sn, name, online, None))

\* lines 115-121: the body of the loop over the listed entries
SnapshotEntry(st, d, now) ==
    LET sn == EntrySerial(d)
        name == EntryName(d)
        online == PyBool(EntryOnline(d))
        st1 == [st EXCEPT !.devices = Put(st.devices, sn,
                              [name |-> name, online |-> online, last_event |-> None])]
        st2 == IF online = True
               THEN [st1 EXCEPT !.device_last_ok = Put(st1.device_last_ok, sn, now)]
               ELSE st1
    IN gui_sink(st2, device_update(sn, name, online, None))

\* the loop left after its first entry
SnapshotLoopFirstOnly(st, arr, i, now) ==
    IF i > Len(arr) \/ i > 1 THEN st ELSE SnapshotEntry(st, arr[i], now)

\* lines 113-122: for d in arr
RECURSIVE SnapshotLoop(_, _, _, _)
SnapshotLoop(st, arr, i, now) ==
    IF i > Len(arr) THEN st
    ELSE SnapshotLoop(SnapshotEntry(st, arr[i], now), arr, i + 1, now)

\* line 179: the device has not been seen for longer than the grace period
Stale(now, last_ok) == now - last_ok > offline_grace_seconds

\* the staleness check of the headless monitor: a device never seen counts
\* as last seen 24 h ago, and the state of the device is not looked at
maybe_flag_offline_unseen(st, sn, name, now) ==
    IF ~Truthy(sn) THEN st
    ELSE IF sn \in DOMAIN st.device_last_ok /\ ~Stale(now, st.device_last_ok[sn]) THEN st
    ELSE LET st1 == gui_sink(st, log_line("[INCIDENT] " \o name \o " offline"))
             st2 == show(st1, "Eufy: urzadzenie offline", "off_" \o sn, now)
         IN add(st2, name, "incident", "Device offline")

\* lines 174-187
maybe_flag_offline(st, sn, name, now) ==
    IF ~Truthy(sn) THEN st
    ELSE IF sn \notin DOMAIN st.device_last_ok THEN st
    ELSE IF ~Stale(now, st.device_last_ok[sn]) THEN st
    ELSE LET known == sn \in DOMAIN st.devices
             cur == IF known THEN st.devices[sn].online ELSE None
             last_event == IF known THEN st.devices[sn].last_event ELSE None
         IN IF cur = False THEN st
            ELSE LET st1 == IF known THEN [st EXCEPT !.devices[sn].online = False] ELSE st
                     st2 == gui_sink(st1, device_update(sn, name, False, last_event))
                     st3 == gui_sink(st2, log_line("[INCIDENT] " \o name \o " offline"))
                     st4 == show(st3, "Eufy: urzadzenie offline", "off_" \o sn, now)
                 IN add(st4, name, "incident", "Device offline")

\* line 129: the online hint read from the properties
UpdateOnline(props) ==
    IF IsBool(props.online) THEN props.online
    ELSE PyBool(props.state \in {"online", "connected"})

\* the recovery test without the Unknown state
IsRecoveryOfflineOnly(online, before) == online = True /\ before = False

\* line 134: the update is a recovery
IsRecovery(online, before) == online = True /\ ~Truthy(before)

\* line 138: the state recorded for the device
RecordedOnline(online, before) == online

\* lines 131-141
UpdateDevice(st, sn, name, online, now) ==
    LET devs0 == IF sn \in DOMAIN st.devices THEN st.devices
                 ELSE Put(st.devices, sn, [name |-> name, online |-> None, last_event |-> None])
        before == devs0[sn].online
        st1 == [st EXCEPT !.devices = [devs0 EXCEPT ![sn].name = name]]
        st2 == IF IsRecovery(online, before)
               THEN add(show(st1, "Eufy: urzadzenie wrocilo", "rec_" \o sn, now),
                        name, "recovery", "Device reachable")
               ELSE st1
        st3 == [st2 EXCEPT !.devices[sn].online = RecordedOnline(online, before)]
        st4 == IF online = True
               THEN [st3 EXCEPT !.device_last_ok = Put(st3.device_last_ok, sn, now)]
               ELSE st3
    IN gui_sink(st4, device_update(sn, name, st4.devices[sn].online, st4.devices[sn].last_event))

UpdateSerial(evt) == Or(evt.device_sn, Or(evt.serial_number, evt.device_id))
UpdateName(evt) == Or(evt.device_name, Or(evt.name, UpdateSerial(evt)))
UpdateProps(evt) == DictOr(evt.properties, evt.data)

\* lines 125-145
HandleUpdate(st, evt, now) ==
    LET sn == UpdateSerial(evt)
        name == UpdateName(evt)
        online == UpdateOnline(UpdateProps(evt))
        st1 == IF Truthy(sn) THEN UpdateDevice(st, sn, name, online, now) ELSE st
    IN maybe_flag_offline(st1, sn, name, now)

\* the slice that keeps the whole string
PrefixWhole(s, n) == s

\* s[:n]
Prefix(s, n) == IF Len(s) <= n THEN s ELSE SubSeq(s, 1, n)

AlertName(evt) == Or(evt.device_name, Or(evt.station_name, "Eufy"))
AlertAction(evt) == Or(evt.event_type, Or(evt.name, Or(evt.action, "event")))
AlertText(evt) == Or(evt.message, Or(evt.data.message, ""))
AlertSerial(evt) == Or(evt.device_sn, Or(evt.serial_number, None))

\* lines 154-158
AlertDevice(st, sn, name, action, text, now) ==
    LET devs0 == IF sn \in DOMAIN st.devices THEN st.devices
                 ELSE Put(st.devices, sn, [name |-> name, online |-> True, last_event |-> None])
        le == Prefix(action \o ": " \o text, LastEventMax)
        st1 == [st EXCEPT !.devices = [devs0 EXCEPT ![sn].last_event = le],
                          !.device_last_ok = Put(st.device_last_ok, sn, now)]
    IN gui_sink(st1, device_update(sn, devs0[sn].name, devs0[sn].online, le))

\* the alert branch logging only the alerts that notified
HandleAlertDeduplicated(st, evt, now) ==
    LET name == AlertName(evt)
        action == AlertAction(evt)
        text == AlertText(evt)
        sn == AlertSerial(evt)
        st1 == IF Truthy(sn) THEN AlertDevice(st, sn, name, action, text, now) ELSE st
        st2 == gui_sink(st1, log_line("[" \o name \o "] " \o action \o " - " \o text))
        st3 == show(st2, "Eufy: " \o action, "evt_" \o name \o "_" \o action, now)
    IN IF st3.notes # st2.notes THEN add(st3, name, "alert", action) ELSE st3

\* lines 148-163
HandleAlert(st, evt, now) ==
    LET name == AlertName(evt)
        action == AlertAction(evt)
        text == AlertText(evt)
        sn == AlertSerial(evt)
        st1 == IF Truthy(sn) THEN AlertDevice(st, sn, name, action, text, now) ELSE st
        st2 == gui_sink(st1, log_line("[" \o name \o "] " \o action \o " - " \o text))
        st3 == show(st2, "Eufy: " \o action, "evt_" \o name \o "_" \o action, now)
    IN add(st3, name, "alert", action)

\* the error branch notifying without a key
HandleErrorUnkeyed(st, evt, now) ==
    LET src == Or(evt.device_name, Or(evt.station_name, "Eufy"))
        msg == Or(evt.message, "str(evt)")
        st1 == gui_sink(st, log_line("[ERROR] " \o src \o ": " \o msg))
        st2 == show(st1, "Eufy: blad", None, now)
    IN add(st2, src, "error", "Error")

\* lines 166-172; str(evt) stands for the printed message when it has no text
HandleError(st, evt, now) ==
    LET src == Or(evt.device_name, Or(evt.station_name, "Eufy"))
        msg == Or(evt.message, "str(evt)")
        st1 == gui_sink(st, log_line("[ERROR] " \o src \o ": " \o msg))
        st2 == show(st1, "Eufy: blad", "err_" \o src, now)
    IN add(st2, src, "error", "Error")

\* line 108: evt.get("type", "").lower() raises AttributeError on a value
\* that has no lower(): null or a number
TypeRaises(evt) == evt.type \in {None, NotStr}
TypeOf(evt) == IF evt.type = Missing THEN "" ELSE Lower(evt.type)

\* the branch of handle that a message of kind 'event' takes (lines 107-172)
Branch(evt) ==
    IF TypeRaises(evt) THEN "raise"
    ELSE LET t == TypeOf(evt)
         IN CASE t \in {"devices", "stations"} -> "snapshot"
              [] t \in {"device", "device update", "property changed"} -> "update"
              [] t \in {"event", "station event", "device event"} -> "alert"
              [] t \in {"error", "station error", "device error"} -> "error"
              [] OTHER -> "discard"

\* MonitorLogic.handle("event", evt) on the state st at time now
handle(st, evt, now) ==
    LET b == Branch(evt)
    IN CASE b = "snapshot" -> SnapshotLoop(st, evt.data, 1, now)
         [] b = "update" -> HandleUpdate(st, evt, now)
         [] b = "alert" -> HandleAlert(st, evt, now)
         [] b = "error" -> HandleError(st, evt, now)
         [] OTHER -> st

----------------------------------------------------------------------------
(* The messages fed to the handler *)

Evt0 == [type |-> Missing, data |-> NoProps, properties |-> NoProps,
         device_sn |-> None, serial_number |-> None, device_id |-> None,
         device_name |-> None, name |-> None, station_name |-> None,
         event_type |-> None, action |-> None, message |-> None]

Ent0 == [serial_number |-> None, device_sn |-> None, station_sn |-> None,
         name |-> None, device_name |-> None, station_name |-> None,
         state |-> None, online |-> None]

EntS1 == [Ent0 EXCEPT !.serial_number = "S1", !.name = "Cam1", !.online = True]
EntS2 == [Ent0 EXCEPT !.device_sn = "S2", !.station_sn = "S1", !.state = "offline", !.online = False]
EntA == [Ent0 EXCEPT !.name = "A", !.state = "connected"]
EntB == [Ent0 EXCEPT !.device_name = "B"]

SnapshotMsgs ==
    { [Evt0 EXCEPT !.type = t, !.data = a] :
          t \in {"devices", "stations", "Devices"},
          a \in {<<EntS1>>, <<EntS2, EntA>>} }

\* every list of at most MaxArr entries, in every order
MaxArr == 2
Arrays == UNION { [1..n -> {EntS1, EntS2, EntA, EntB}] : n \in 0..MaxArr }
ListedMsgs == { [Evt0 EXCEPT !.type = "stations", !.data = a] : a \in Arrays }

Hints ==
    { NoProps,
      [NoProps EXCEPT !.online = True],
      [NoProps EXCEPT !.online = False],
      [NoProps EXCEPT !.state = "online"],
      [NoProps EXCEPT !.online = NotStr, !.state = "offline"] }

UpdateMsgs ==
    { [Evt0 EXCEPT !.type = "device update", !.device_sn = sn, !.device_name = "Cam1",
                   !.properties = h] : sn \in {"S1", None}, h \in Hints }
    \cup { [Evt0 EXCEPT !.type = t, !.serial_number = "S2", !.device_id = "S1", !.data = h] :
              t \in {"device", "property changed", "Device Update"},
              h \in {[NoProps EXCEPT !.online = True], [NoProps EXCEPT !.state = "offline"]} }

LongText == "0123456789012345678901234567890123456789012345678901234567890123456789012345678901234567890123456789012345678901234567890123456789"

AlertMsgs ==
    { [Evt0 EXCEPT !.type = t, !.device_sn = "S1", !.device_name = "Cam1",
                   !.event_type = "motion", !.message = "seen"] :
          t \in {"event", "station event", "device event", "EVENT"} }
    \cup { [Evt0 EXCEPT !.type = "event", !.station_name = "Base", !.action = "alarm",
                        !.data = [NoProps EXCEPT !.message = LongText]],
           [Evt0 EXCEPT !.type = "device event", !.serial_number = "S2", !.name = "ring",
                        !.message = LongText] }

ErrorMsgs ==
    { [Evt0 EXCEPT !.type = t, !.message = "boom"] :
          t \in {"error", "station error", "device error", "Error"} }

OtherMsgs ==
    { [Evt0 EXCEPT !.type = t, !.device_sn = "S1", !.properties = [NoProps EXCEPT !.online = True]] :
          t \in {"heartbeat", "", Missing, None, NotStr} }

----------------------------------------------------------------------------
(* The handler as a state machine *)

NoCall == [branch |-> "none", sn |-> None, hint |-> None, before |-> None, age |-> -1, arr |-> <<>>,
           fault |-> "none", text |-> ""]

\* what the call is about, and the device's state when it was made
Summary(evt) ==
    LET b == Branch(evt)
        sn == CASE b = "update" -> UpdateSerial(evt)
                [] b = "alert" -> AlertSerial(evt)
                [] OTHER -> None
    IN [branch |-> b,
        sn |-> sn,
        hint |-> IF b = "update" THEN UpdateOnline(UpdateProps(evt)) ELSE None,
        before |-> IF sn \in DOMAIN devices THEN devices[sn].online ELSE "Absent",
        age |-> IF sn \in DOMAIN device_last_ok THEN clock - device_last_ok[sn] ELSE -1,
        arr |-> IF b = "snapshot"
                THEN [i \in 1..Len(evt.data) |->
                        [sn |-> EntrySerial(evt.data[i]), name |-> EntryName(evt.data[i])]]
                ELSE <<>>,
        fault |-> "none",
        text |-> IF b = "alert" THEN AlertAction(evt) \o ": " \o AlertText(evt) ELSE ""]

\* App.__init__ (eufy_desktop_gui.py 191-208) and _build_ui (216-219, 250)
AppInit ==
    /\ queue = << >>
    /\ pc = "idle"
    /\ abandoned = FALSE
    /\ thread_alive = FALSE
    /\ running = 0
    /\ stop_set = FALSE
    /\ loop_running = FALSE
    /\ loop_stop = FALSE
    /\ timer = 0
    /\ hs_sent = << >>
    /\ received = 0
    /\ produced = << >>
    /\ last_report = "none"
    /\ logic_handled = << >>
    /\ gui = "idle"
    /\ status = "Niepolaczony"
    /\ btn_connect = TRUE
    /\ btn_disconnect = FALSE

LogicInit ==
    /\ clock = 0
    /\ devices = << >>
    /\ device_last_ok = << >>
    /\ last = << >>
    /\ call = NoCall
    /\ added = << >>
    /\ notes = << >>
    /\ sunk = << >>
    /\ raised = FALSE
    /\ handled = 0
    /\ fired_at = << >>

\* time passes between two calls
Tick ==
    /\ handled < MaxHandled
    /\ \E t \in TimePoints : t > clock /\ clock' = t
    /\ UNCHANGED <<devices, device_last_ok, last, call, added, notes, sunk, raised, handled>>
    /\ UNCHANGED nonLogicVars

\* MonitorLogic.handle("event", evt)
Handle(evt) ==
    /\ handled < MaxHandled
    /\ LET st0 == [devices |-> devices, device_last_ok |-> device_last_ok, last |-> last,
                   added |-> << >>, notes |-> << >>, sunk |-> << >>]
           st == handle(st0, evt, clock)
       IN /\ devices' = st.devices
          /\ device_last_ok' = st.device_last_ok
          /\ last' = st.last
          /\ added' = st.added
          /\ notes' = st.notes
          /\ sunk' = st.sunk
    /\ raised' = TypeRaises(evt)
    /\ call' = Summary(evt)
    /\ handled' = handled + 1
    /\ UNCHANGED <<clock, nonLogicVars>>

HandleSnapshot == \E evt \in SnapshotMsgs : Handle(evt)
HandleDeviceUpdate == \E evt \in UpdateMsgs : Handle(evt)
HandleAlertEvent == \E evt \in AlertMsgs : Handle(evt)
HandleErrorEvent == \E evt \in ErrorMsgs : Handle(evt)
HandleOther == \E evt \in OtherMsgs : Handle(evt)

\* MonitorLogic.handle("conn", payload) (lines 100-102) and any other kind (104-105)
HandleKind ==
    /\ handled < MaxHandled
    /\ \E kind \in {"conn", "log"} :
          /\ sunk' = IF kind = "conn"
                     THEN <<[kind |-> "conn", sn |-> None, name |-> None, online |-> None,
                             text |-> "connected"]>>
                     ELSE << >>
          /\ call' = [NoCall EXCEPT !.branch = kind]
    /\ added' = << >>
    /\ notes' = << >>
    /\ raised' = FALSE
    /\ handled' = handled + 1
    /\ UNCHANGED <<clock, devices, device_last_ok, last, nonLogicVars>>

LogicNext ==
    \/ Tick
    \/ HandleSnapshot
    \/ HandleDeviceUpdate
    \/ HandleAlertEvent
    \/ HandleErrorEvent
    \/ HandleOther
    \/ HandleKind

Init == LogicInit /\ AppInit
Next == LogicNext
Spec == Init /\ [][Next]_vars

\* the handler fed with device lists only
HandleListed == \E evt \in ListedMsgs : Handle(evt)
SnapshotNext == HandleListed
SpecSnapshot == Init /\ [][SnapshotNext]_vars

----------------------------------------------------------------------------
(* Notifier.show called on its own *)

\* the instants of the calls and the number of calls
NotifierTimes == {0, 50, 90, 91, 140, 181}
MaxShows == 4
Keys == {"k", "j", None}

NotifierTick ==
    /\ handled < MaxShows
    /\ \E t \in NotifierTimes : t > clock /\ clock' = t
    /\ UNCHANGED <<devices, device_last_ok, last, call, added, notes, sunk, raised, handled, fired_at>>
    /\ UNCHANGED appVars

\* Notifier.show(title, msg, key)
Show(key) ==
    /\ handled < MaxShows
    /\ LET st == show([last |-> last, notes |-> << >>], "title", key, clock)
       IN /\ last' = st.last
          /\ notes' = st.notes
          /\ fired_at' = IF st.notes # << >> /\ Truthy(key)
                         THEN Put(fired_at, key, clock) ELSE fired_at
    /\ call' = [NoCall EXCEPT !.branch = "show", !.sn = key,
                              !.age = IF key \in DOMAIN fired_at THEN clock - fired_at[key] ELSE -1]
    /\ handled' = handled + 1
    /\ UNCHANGED <<clock, devices, device_last_ok, added, sunk, raised, appVars>>

ShowKey == \E key \in Keys : Show(key)

NotifierNext == NotifierTick \/ ShowKey
SpecNotifier == Init /\ [][NotifierNext]_vars

\* C3: a call with a non-empty key notifies exactly when the key has not
\* notified before (age -1) or its last notification is at least the
\* cooldown ago; so two notifications of one key are never less than the
\* cooldown apart.
C3_FiresIffCooldownElapsed ==
    (call.branch = "show" /\ Truthy(call.sn)) =>
        ((notes # << >>) <=> (call.age = -1 \/ call.age >= cooldown))

\* key k notified, and notified again 91 s later
C3_Witness ==
    /\ call.branch = "show" /\ call.sn = "k"
    /\ call.age = cooldown + 1 /\ notes # << >> /\ fired_at["k"] = clock /\ handled = 2

\* C17: a call of show that is suppressed leaves the map of last fired
\* times as it was; a call that notifies changes at most the entry of its
\* own key, which becomes the current time.
C17_OnlyFiredCallsRecord ==
    [][(handled' = handled + 1 /\ call'.branch = "show") =>
          IF notes' = << >>
          THEN last' = last
          ELSE /\ DOMAIN last' = DOMAIN last \cup (IF Truthy(call'.sn) THEN {call'.sn} ELSE {})
               /\ \A k \in DOMAIN last : k # call'.sn => last'[k] = last[k]
               /\ Truthy(call'.sn) => last'[call'.sn] = clock]_vars

\* a call for k has just been suppressed, 50 s after k notified, with another
\* key in the map: the entry of k still holds the earlier time
C17_Witness ==
    /\ call.branch = "show" /\ call.sn = "k" /\ notes = << >>
    /\ call.age = 50 /\ last["k"] = clock - 50 /\ "j" \in DOMAIN last

----------------------------------------------------------------------------
(* Properties of MonitorLogic.handle *)

\* the incidents of one kind in a list of appended incidents
OfKind(incs, type_) == {i \in 1..Len(incs) : incs[i].type = type_}
OfflineIncidents(incs) ==
    {i \in 1..Len(incs) : incs[i].type = "incident" /\ incs[i].title = "Device offline"}

\* the call just made was a DeviceUpdate for a device with a serial
UpdateCall == call.branch = "update" /\ Truthy(call.sn)

\* C1: with a grace period of 60 s, a DeviceUpdate with a false or absent
\* online hint for an Online device last seen 61 s ago appends exactly one
\* 'Device offline' incident, and none when the device was last seen 59 s ago.
C1_OfflineAfterGrace ==
    (UpdateCall /\ call.hint = False /\ call.before = True) =>
        /\ call.age = offline_grace_seconds + 1 => Cardinality(OfflineIncidents(added)) = 1
        /\ call.age = offline_grace_seconds - 1 => Cardinality(OfflineIncidents(added)) = 0

\* C2: a DeviceUpdate with a true online hint appends exactly one recovery
\* incident when the device was Offline, Unknown or not in the map before,
\* and none when it was Online before.
C2_RecoveryOnce ==
    (UpdateCall /\ call.hint = True) =>
        /\ Cardinality(OfKind(added, "recovery")) = (IF call.before = True THEN 0 ELSE 1)
        /\ \A i \in OfKind(added, "recovery") : added[i].title = "Device reachable"

\* an Offline device has just been updated with a true hint: one recovery
C2_Witness ==
    /\ UpdateCall /\ call.hint = True /\ call.before = False
    /\ Cardinality(OfKind(added, "recovery")) = 1

\* C8: a message whose type is unrecognized, missing, null or not a string
\* raises nothing, appends no incident, fires no notification, emits nothing
\* and leaves the device map and the last-seen map as they were.
C8_DiscardSilently ==
    [][(handled' = handled + 1 /\ call'.branch \in {"discard", "raise"}) =>
          /\ ~raised'
          /\ added' = << >> /\ notes' = << >> /\ sunk' = << >>
          /\ devices' = devices /\ device_last_ok' = device_last_ok]_vars

\* C10: after a DeviceUpdate with a false hint a device that was not Offline
\* before is Offline only if it was stale and the 'Device offline' incident
\* was appended.
C10_HintFalseDoesNotForceOffline ==
    (UpdateCall /\ call.hint = False /\ call.before # False /\ devices[call.sn].online = False) =>
        /\ call.age > offline_grace_seconds
        /\ Cardinality(OfflineIncidents(added)) = 1

\* C11: every Alert message handled appends exactly one incident, of kind
\* 'alert', also when the cooldown suppresses its notification.
C11_AlertAlwaysLogged ==
    call.branch = "alert" => (Len(added) = 1 /\ added[1].type = "alert")

\* the same alert handled a second time within the cooldown: no
\* notification, one incident
C11_Witness ==
    /\ call.branch = "alert" /\ handled >= 2 /\ notes = << >>
    /\ Len(added) = 1 /\ added[1].type = "alert"

\* C12: an ErrorEvent leaves the device map and the last-seen map as they
\* were, appends exactly one incident, of kind 'error', and asks for a
\* notification under the key err_<source>: the key has an entry afterwards,
\* and the notification is shown unless the cooldown of that key suppresses it.
C12_ErrorEffects ==
    [][(handled' = handled + 1 /\ call'.branch = "error") =>
          /\ devices' = devices /\ device_last_ok' = device_last_ok
          /\ Len(added') = 1 /\ added'[1].type = "error"
          /\ LET key == "err_" \o added'[1].source
             IN /\ key \in DOMAIN last'
                /\ IF key \in DOMAIN last /\ clock - last[key] < cooldown
                   THEN notes' = << >> /\ last' = last
                   ELSE /\ Len(notes') = 1 /\ notes'[1].key = key
                        /\ last'[key] = clock]_vars

\* an error handled with devices in the map, its notification shown
C12_Witness ==
    /\ call.branch = "error" /\ devices # << >> /\ device_last_ok # << >>
    /\ Len(added) = 1 /\ Len(notes) = 1 /\ notes[1].key = "err_Eufy"

\* C13: no step removes a serial from the device map, and no step removes
\* or lowers an entry of the last-seen map (the clock never goes back).
C13_NeverRemovedNeverLowered ==
    [][/\ DOMAIN devices \subseteq DOMAIN devices'
       /\ \A sn \in DOMAIN device_last_ok :
             sn \in DOMAIN device_last_ok' /\ device_last_ok'[sn] >= device_last_ok[sn]]_vars

\* two devices are in both maps and S1 has just been seen again, later than before
C13_Witness ==
    /\ {"S1", "S2"} \subseteq DOMAIN devices /\ {"S1", "S2"} \subseteq DOMAIN device_last_ok
    /\ call.sn = "S1" /\ call.age > 0 /\ device_last_ok["S1"] = clock
    /\ device_last_ok["S2"] < clock

\* C15: handling a DeviceSnapshot appends no incident and asks for no
\* notification (the notifier's map is as before), whatever it lists.
C15_SnapshotIsSilent ==
    [][(handled' = handled + 1 /\ call'.branch = "snapshot") =>
          (added' = << >> /\ notes' = << >> /\ last' = last)]_vars

\* S2, seen online before, has just been listed as not online
C15_Witness ==
    /\ call.branch = "snapshot" /\ Len(call.arr) = 2 /\ call.arr[1].sn = "S2"
    /\ "S2" \in DOMAIN device_last_ok /\ devices["S2"].online = False
    /\ added = << >> /\ notes = << >>

\* C18: an Alert with a serial sets the device's last-seen time to the
\* current time and its last event to the first 120 characters of
\* '<action>: <message>'; a device not in the map is created Online, a device
\* in the map keeps its online state, and no recovery incident is appended.
C18_AlertRefreshesDevice ==
    [][(handled' = handled + 1 /\ call'.branch = "alert" /\ Truthy(call'.sn)) =>
          LET sn == call'.sn
              le == devices'[sn].last_event
          IN /\ device_last_ok'[sn] = clock
             /\ Len(le) <= LastEventMax
             /\ le = (IF Len(call'.text) <= 120 THEN call'.text ELSE SubSeq(call'.text, 1, 120))
             /\ devices'[sn].online = (IF sn \in DOMAIN devices THEN devices[sn].online ELSE True)
             /\ OfKind(added', "recovery") = {}]_vars

\* an alert with a long text has just been handled for S2, which was Offline
C18_Witness ==
    /\ call.branch = "alert" /\ call.sn = "S2" /\ call.before = False
    /\ devices["S2"].online = False /\ Len(call.text) > LastEventMax
    /\ Len(devices["S2"].last_event) = LastEventMax /\ device_last_ok["S2"] = clock

\* C22: a DeviceUpdate with a false or absent online hint for a device that
\* has no last-seen entry appends no 'Device offline' incident, shows no
\* offline notification, and leaves the device without an entry.
C22_NeverSeenNeverOffline ==
    [][(/\ handled' = handled + 1 /\ call'.branch = "update" /\ Truthy(call'.sn)
        /\ call'.hint # True /\ call'.sn \notin DOMAIN device_last_ok) =>
          /\ OfflineIncidents(added') = {}
          /\ \A i \in 1..Len(notes') : notes'[i].key # "off_" \o call'.sn
          /\ call'.sn \notin DOMAIN device_last_ok']_vars

\* the third update with a false hint for S1, 120 s after the first calls,
\* and S1 has never been seen
C22_Witness ==
    /\ call.branch = "update" /\ call.sn = "S1" /\ call.hint = False /\ call.before = False
    /\ handled = 3 /\ clock = 120 /\ "S1" \notin DOMAIN device_last_ok
    /\ added = << >> /\ notes = << >>

\* the listed entry is in the device map: under its serial, or, having none,
\* as some record with its name
Appears(e, devs) ==
    IF Truthy(e.sn) THEN e.sn \in DOMAIN devs
    ELSE \E k \in DOMAIN devs : devs[k].name = e.name

\* C9 as stated: after a DeviceSnapshot every listed device is in the device
\* map, entries without a serial included.
C9_EveryListedDeviceAppears ==
    call.branch = "snapshot" => \A i \in 1..Len(call.arr) : Appears(call.arr[i], devices)

\* the last entry of the list that has the key sn
LastWith(arr, sn) ==
    arr[CHOOSE i \in 1..Len(arr) :
            arr[i].sn = sn /\ \A j \in (i + 1)..Len(arr) : arr[j].sn # sn]

\* C9 amended: a DeviceSnapshot adds to the keys of the device map exactly
\* the serials of its entries, whatever their order, and removes none; each
\* key holds the last entry listed with it; the entries without a serial all
\* go to the one key None.
C9_ListedSerialsKeyed ==
    [][(handled' = handled + 1 /\ call'.branch = "snapshot") =>
          /\ DOMAIN devices' =
                DOMAIN devices \cup {call'.arr[i].sn : i \in 1..Len(call'.arr)}
          /\ \A i \in 1..Len(call'.arr) :
                devices'[call'.arr[i].sn].name = LastWith(call'.arr, call'.arr[i].sn).name]_vars

\* two lists have been handled: the map holds S1, S2 and, for the two
\* entries without a serial, the single key None
C9_Witness ==
    /\ call.branch = "snapshot" /\ handled = 2 /\ Len(call.arr) = 2
    /\ call.arr[1].sn = None /\ call.arr[2].sn = None /\ call.arr[1].name # call.arr[2].name
    /\ DOMAIN devices = {"S1", "S2", None}

----------------------------------------------------------------------------
(* WSClient.run in its thread, App.queue, and the GUI thread                *)
(* (eufy_desktop_gui.py 55-84, 267-286, 331-353)                            *)

RECONNECT_DELAY == 5
MaxMsgs == 2
MaxQueue == 2

\* the handshake with the first two commands swapped
HandshakeSwapped == <<"get_devices", "initialize", "get_stations">>

Handshake == <<"initialize", "get_devices", "get_stations">>

conn_item(st) == [kind |-> "conn", status |-> st, id |-> 0]
event_item(n) == [kind |-> "event", status |-> "", id |-> n]

\* out_queue.put(item); the cap on the length is the model's, the queue has none
put(item) == Len(queue) < MaxQueue /\ queue' = Append(queue, item)

\* run() is a pending task of a running loop: its next step can be taken
Runnable == thread_alive /\ loop_running /\ ~abandoned

\* the loop test ending after the first failure
LoopTestGivesUp(stop) == "returned"

\* line 65: while not self._stop.is_set()
LoopTest(stop) == IF stop THEN "returned" ELSE "connecting"

\* the handler's and the notifier's state is not touched
AppFrame == UNCHANGED <<logicVars, fired_at>>

transportRest == <<thread_alive, running, stop_set, loop_running, loop_stop, abandoned,
                   logic_handled, gui, status, btn_connect, btn_disconnect>>

\* runner (337-342): run_until_complete starts the loop and run() up to its first await
RunBegin ==
    /\ AppFrame
    /\ thread_alive /\ pc = "start"
    /\ loop_running' = TRUE
    /\ pc' = LoopTest(stop_set)
    /\ UNCHANGED last_report
    /\ UNCHANGED <<queue, abandoned, thread_alive, running, stop_set, loop_stop, timer, hs_sent,
                   received, produced, logic_handled, gui, status, btn_connect, btn_disconnect>>

\* line 67: websockets.connect succeeds
ConnectOk ==
    /\ AppFrame
    /\ Runnable /\ pc = "connecting"
    /\ pc' = "send1"
    /\ hs_sent' = << >>
    /\ UNCHANGED <<queue, timer, received, produced, last_report, transportRest>>

\* lines 79-81: an exception leaves the connection; the status is put and the sleep begins
Failure ==
    /\ AppFrame
    /\ put(conn_item("disconnected"))
    /\ last_report' = "disconnected"
    /\ pc' = "sleep"
    /\ timer' = RECONNECT_DELAY
    /\ UNCHANGED <<hs_sent, received, produced, transportRest>>

\* line 67: websockets.connect raises
ConnectFail == Runnable /\ pc = "connecting" /\ Failure

\* lines 68-72: a handshake command is sent; after the third, the status is put
SendOk ==
    /\ AppFrame
    /\ Runnable /\ pc \in {"send1", "send2", "send3"}
    /\ hs_sent' = Append(hs_sent, Handshake[Len(hs_sent) + 1])
    /\ IF pc = "send3"
       THEN put(conn_item("connected")) /\ last_report' = "connected" /\ pc' = "recv"
       ELSE /\ pc' = (IF pc = "send1" THEN "send2" ELSE "send3")
            /\ UNCHANGED <<queue, last_report>>
    /\ UNCHANGED <<timer, received, produced, transportRest>>

\* lines 68-70: ws.send raises
SendFail == Runnable /\ pc \in {"send1", "send2", "send3"} /\ Failure

\* lines 73-78: a message that parses is put as an event
RecvMsg ==
    /\ AppFrame
    /\ Runnable /\ pc = "recv" /\ received < MaxMsgs
    /\ put(event_item(received + 1))
    /\ produced' = Append(produced, received + 1)
    /\ received' = received + 1
    /\ UNCHANGED <<pc, timer, hs_sent, last_report, transportRest>>

\* lines 74-77: a message that does not parse is skipped
RecvBad ==
    /\ AppFrame
    /\ Runnable /\ pc = "recv" /\ received < MaxMsgs
    /\ received' = received + 1
    /\ UNCHANGED <<queue, pc, timer, hs_sent, produced, last_report, transportRest>>

\* line 73: the iteration raises (keepalive timeout, connection lost)
RecvError == Runnable /\ pc = "recv" /\ Failure

\* line 73: the server closes normally, the iteration ends without raising and
\* the while loop (65) goes on at once
RecvClose ==
    /\ AppFrame
    /\ Runnable /\ pc = "recv"
    /\ pc' = LoopTest(stop_set)
    /\ UNCHANGED <<queue, timer, hs_sent, received, produced, last_report, transportRest>>

\* line 81: a second of asyncio.sleep(5) passes
SleepTick ==
    /\ AppFrame
    /\ Runnable /\ pc = "sleep" /\ timer > 0
    /\ timer' = timer - 1
    /\ UNCHANGED <<queue, pc, hs_sent, received, produced, last_report, transportRest>>

\* lines 81, 65: the sleep is over
Wake ==
    /\ AppFrame
    /\ Runnable /\ pc = "sleep" /\ timer = 0
    /\ pc' = LoopTest(stop_set)
    /\ UNCHANGED <<queue, timer, hs_sent, received, produced, last_report, transportRest>>

\* lines 340-342: run() has returned, run_until_complete returns and the thread ends
ThreadExit ==
    /\ AppFrame
    /\ thread_alive /\ loop_running /\ ~abandoned /\ pc = "returned"
    /\ thread_alive' = FALSE
    /\ running' = running - 1
    /\ loop_running' = FALSE
    /\ UNCHANGED last_report
    /\ UNCHANGED <<queue, pc, abandoned, stop_set, loop_stop, timer, hs_sent, received, produced,
                   logic_handled, gui, status, btn_connect, btn_disconnect>>

\* line 350 taking effect: the loop stops with run() suspended at an await;
\* run_until_complete raises RuntimeError, which runner swallows (341-342)
LoopStop ==
    /\ AppFrame
    /\ Runnable /\ loop_stop /\ pc \notin {"start", "returned"}
    /\ abandoned' = TRUE
    /\ thread_alive' = FALSE
    /\ running' = running - 1
    /\ loop_running' = FALSE
    /\ UNCHANGED last_report
    /\ UNCHANGED <<queue, pc, stop_set, loop_stop, timer, hs_sent, received, produced,
                   logic_handled, gui, status, btn_connect, btn_disconnect>>

guiRest == <<pc, abandoned, thread_alive, running, stop_set, loop_running, loop_stop, timer, hs_sent,
             received, produced, last_report>>

\* lines 267-270: the timer callback starts to drain the queue
PollBegin ==
    /\ AppFrame
    /\ gui = "idle"
    /\ gui' = "polling"
    /\ UNCHANGED <<queue, logic_handled, status, btn_connect, btn_disconnect, guiRest>>

\* lines 270-283: one item is taken; 'conn' sets the status and the buttons,
\* 'device_update' and 'log' go to the widgets, any other kind has no branch
PollItem ==
    /\ AppFrame
    /\ gui = "polling" /\ queue # << >>
    /\ queue' = Tail(queue)
    /\ LET item == Head(queue)
       IN IF item.kind = "conn"
          THEN IF item.status = "connected"
               THEN status' = "Polaczono" /\ btn_connect' = FALSE /\ btn_disconnect' = TRUE
               ELSE status' = "Rozlaczono" /\ btn_connect' = TRUE /\ btn_disconnect' = FALSE
          ELSE UNCHANGED <<status, btn_connect, btn_disconnect>>
    /\ UNCHANGED <<logic_handled, gui, guiRest>>

\* lines 284-286: queue.Empty ends the drain
PollEnd ==
    /\ AppFrame
    /\ gui = "polling" /\ queue = << >>
    /\ gui' = "idle"
    /\ UNCHANGED <<queue, logic_handled, status, btn_connect, btn_disconnect, guiRest>>

\* the test of start_ws that never finds a thread
AlreadyRunningIgnored(alive) == FALSE

\* line 332: self.ws_thread and self.ws_thread.is_alive()
AlreadyRunning(alive) == alive

\* App.start_ws (331-344), the command of btn_connect
StartWs ==
    /\ AppFrame
    /\ gui = "idle" /\ btn_connect
    /\ IF AlreadyRunning(thread_alive)
       THEN UNCHANGED <<pc, abandoned, thread_alive, running, stop_set, loop_running, loop_stop,
                        status, last_report>>
       ELSE /\ status' = "Laczenie"
            /\ running' = running + 1
            /\ last_report' = "none"
            /\ loop_running' = FALSE /\ loop_stop' = FALSE
            /\ stop_set' = FALSE
            /\ pc' = "start" /\ abandoned' = FALSE
            /\ thread_alive' = TRUE
    /\ UNCHANGED <<queue, timer, hs_sent, received, produced, logic_handled, gui,
                   btn_connect, btn_disconnect>>

\* App.stop_ws (346-348), the command of btn_disconnect: ws_client.stop()
StopWsFlag ==
    /\ AppFrame
    /\ gui = "idle" /\ btn_disconnect
    /\ stop_set' = (IF pc # "idle" THEN TRUE ELSE stop_set)
    /\ gui' = "stopping"
    /\ UNCHANGED last_report
    /\ UNCHANGED <<queue, pc, abandoned, thread_alive, running, loop_running, loop_stop, timer,
                   hs_sent, received, produced, logic_handled, status, btn_connect, btn_disconnect>>

\* App.stop_ws (349-353): loop.stop is scheduled if the loop runs
StopWsLoop ==
    /\ AppFrame
    /\ gui = "stopping"
    /\ loop_stop' = (IF loop_running THEN TRUE ELSE loop_stop)
    /\ status' = "Rozlaczono"
    /\ btn_connect' = TRUE
    /\ btn_disconnect' = FALSE
    /\ gui' = "idle"
    /\ UNCHANGED last_report
    /\ UNCHANGED <<queue, pc, abandoned, thread_alive, running, stop_set, loop_running, timer,
                   hs_sent, received, produced, logic_handled>>

TransportNext ==
    \/ RunBegin \/ ConnectOk \/ ConnectFail \/ SendOk \/ SendFail
    \/ RecvMsg \/ RecvBad \/ RecvError \/ RecvClose \/ SleepTick \/ Wake
    \/ ThreadExit \/ LoopStop

GuiNext ==
    \/ PollBegin \/ PollItem \/ PollEnd \/ StartWs \/ StopWsFlag \/ StopWsLoop

AppNext == TransportNext \/ GuiNext

SpecApp == Init /\ [][AppNext]_vars

\* the thread is scheduled and asyncio.sleep(5) ends: the steps of the delay are taken
SpecAppFair == SpecApp /\ WF_vars(SleepTick) /\ WF_vars(Wake)

----------------------------------------------------------------------------
(* The headless monitor (eufy_monitor_ws.py): EufyMonitor.handle_event is   *)
(* awaited by EufyClient.run for every message that parses. It uses clock,  *)
(* device_last_ok, last and the record of the call; pc, timer, hs_sent and  *)
(* received are EufyClient.run's position. A sink may fail: IncidentLog.add *)
(* raises (database locked, disk full), notification.notify raises.         *)

\* line 101: timedelta(hours=24), the age given to a device never seen online
default_age == 86400

\* line 101: self.device_last_ok.get(dev_sn, now - 24 h)
LastOk(st, sn, now) ==
    IF sn \in DOMAIN st.device_last_ok THEN st.device_last_ok[sn] ELSE now - default_age

\* self.log.add (36-41) in a handler: a raising call ends the handler (st.exc)
log_add(st, source, type_, title, add_raises) ==
    IF add_raises THEN [st EXCEPT !.exc = TRUE] ELSE add(st, source, type_, title)

\* lines 82, 90, 107: the type is compared as it is, without lower()
EventBranch(evt) ==
    CASE evt.type \in {"event", "station event", "device event"} -> "alert"
      [] evt.type \in {"device", "device update", "property changed"} -> "update"
      [] evt.type \in {"error", "station error", "device error"} -> "error"
      [] OTHER -> "discard"

\* lines 82-87
EventAlert(st, evt, now, add_raises) ==
    LET name == AlertName(evt)
        action == AlertAction(evt)
        st1 == show(st, "Eufy: " \o action, "evt_" \o name \o "_" \o action, now)
    IN log_add(st1, name, "alert", action, add_raises)

\* lines 90-104
EventUpdate(st, evt, now, add_raises) ==
    LET dev_sn == UpdateSerial(evt)
        name == UpdateName(evt)
        online == UpdateOnline(UpdateProps(evt))
    IN IF online = True
       THEN [st EXCEPT !.device_last_ok = Put(st.device_last_ok, dev_sn, now)]
       ELSE IF Stale(now, LastOk(st, dev_sn, now))
            THEN log_add(show(st, "Eufy: urzadzenie offline", "off_" \o dev_sn, now),
                         name, "incident", "Device offline", add_raises)
            ELSE st

\* lines 107-111
EventError(st, evt, now, add_raises) ==
    LET src == Or(evt.device_name, Or(evt.station_name, "Eufy"))
        st1 == show(st, "Eufy: blad", "err_" \o src, now)
    IN log_add(st1, src, "error", "Error", add_raises)

\* EufyMonitor.handle_event (79-111): the three tests in turn; an exception
\* leaves the handler at once
handle_event(st, evt, now, add_raises) ==
    LET b == EventBranch(evt)
        st1 == IF b = "alert" THEN EventAlert(st, evt, now, add_raises) ELSE st
        st2 == IF ~st1.exc /\ b = "update" THEN EventUpdate(st1, evt, now, add_raises) ELSE st1
    IN IF ~st2.exc /\ b = "error" THEN EventError(st2, evt, now, add_raises) ELSE st2

StreamMsgs ==
    { [Evt0 EXCEPT !.type = "device update", !.device_sn = "S1", !.device_name = "Cam1",
                   !.properties = h] :
          h \in {NoProps, [NoProps EXCEPT !.online = True], [NoProps EXCEPT !.online = False]} }
    \cup { [Evt0 EXCEPT !.type = "property changed", !.data = [NoProps EXCEPT !.state = "online"]],
           [Evt0 EXCEPT !.type = "event", !.device_sn = "S1", !.device_name = "Cam1",
                        !.event_type = "motion", !.message = "seen"],
           [Evt0 EXCEPT !.type = "error", !.message = "boom"],
           [Evt0 EXCEPT !.type = "heartbeat"],
           [Evt0 EXCEPT !.type = "EVENT", !.device_name = "Cam1", !.event_type = "motion"] }

\* the number of messages the stream delivers to the handler
MaxEvents == 2

\* what the headless monitor does not have: the device map, the GUI, the queue
clientFrame == <<devices, sunk, fired_at, queue, abandoned, thread_alive, running, stop_set, loop_running,
                 loop_stop, produced, last_report, logic_handled, gui, status, btn_connect,
                 btn_disconnect>>
callVars == <<call, added, notes, raised, handled>>

\* EufyMonitor.run (113-116): the start notification, then client.run() up to connect
ClientStart ==
    /\ pc = "idle"
    /\ LET st == show([last |-> last, notes |-> << >>], "Eufy Monitor", "start", clock)
       IN last' = st.last /\ notes' = st.notes
    /\ pc' = "connecting"
    /\ UNCHANGED <<clock, device_last_ok, call, added, raised, handled, timer, hs_sent, received,
                   clientFrame>>

\* line 56: websockets.connect succeeds
ClientConnectOk ==
    /\ pc = "connecting"
    /\ pc' = "send1"
    /\ hs_sent' = << >>
    /\ UNCHANGED <<clock, device_last_ok, last, callVars, timer, received, clientFrame>>

\* lines 68-69: an exception leaves the connection and the sleep begins
ClientFailure ==
    /\ pc' = "sleep"
    /\ timer' = RECONNECT_DELAY
    /\ UNCHANGED <<clock, device_last_ok, last, callVars, hs_sent, received, clientFrame>>

\* line 56: websockets.connect raises
ClientConnectFail == pc = "connecting" /\ ClientFailure

\* lines 58-60: a handshake command is sent
ClientSendOk ==
    /\ pc \in {"send1", "send2", "send3"}
    /\ hs_sent' = Append(hs_sent, Handshake[Len(hs_sent) + 1])
    /\ pc' = (CASE pc = "send1" -> "send2" [] pc = "send2" -> "send3" [] OTHER -> "recv")
    /\ UNCHANGED <<clock, device_last_ok, last, callVars, timer, received, clientFrame>>

\* lines 58-60: ws.send raises
ClientSendFail == pc \in {"send1", "send2", "send3"} /\ ClientFailure

\* lines 62-67: a message that parses is handled; an exception of the handler
\* is caught at line 68, after the connection has been left
ClientRecv ==
    /\ pc = "recv" /\ handled < MaxEvents
    /\ \E evt \in StreamMsgs, add_raises \in BOOLEAN, notify_raises \in BOOLEAN :
          LET st0 == [device_last_ok |-> device_last_ok, last |-> last,
                      added |-> << >>, notes |-> << >>, exc |-> FALSE]
              st == handle_event(st0, evt, clock, add_raises)
          IN /\ device_last_ok' = st.device_last_ok
             /\ last' = st.last
             /\ added' = st.added
             /\ notes' = st.notes
             /\ raised' = st.exc
             /\ call' = [NoCall EXCEPT
                            !.branch = EventBranch(evt),
                            !.sn = UpdateSerial(evt),
                            !.hint = IF EventBranch(evt) = "update"
                                     THEN UpdateOnline(UpdateProps(evt)) ELSE None,
                            !.age = clock - LastOk(st0, UpdateSerial(evt), clock),
                            !.fault = IF st.exc THEN "add"
                                      ELSE IF notify_raises /\ st.notes # << >> THEN "notify"
                                      ELSE "none"]
             /\ IF st.exc
                THEN pc' = "sleep" /\ timer' = RECONNECT_DELAY
                ELSE UNCHANGED <<pc, timer>>
    /\ handled' = handled + 1
    /\ UNCHANGED <<clock, hs_sent, received, clientFrame>>

\* lines 63-66: a message that does not parse is skipped
ClientRecvBad ==
    /\ pc = "recv" /\ received < MaxMsgs
    /\ received' = received + 1
    /\ UNCHANGED <<clock, device_last_ok, last, callVars, pc, timer, hs_sent, clientFrame>>

\* line 62: the iteration raises
ClientRecvError == pc = "recv" /\ ClientFailure

\* line 62: the server closes normally; while True (54) connects again at once
ClientRecvClose ==
    /\ pc = "recv"
    /\ pc' = "connecting"
    /\ UNCHANGED <<clock, device_last_ok, last, callVars, timer, hs_sent, received, clientFrame>>

\* line 69: a second of asyncio.sleep(5) passes
ClientSleepTick ==
    /\ pc = "sleep" /\ timer > 0
    /\ timer' = timer - 1
    /\ UNCHANGED <<clock, device_last_ok, last, callVars, pc, hs_sent, received, clientFrame>>

\* lines 69, 54: the sleep is over
ClientWake ==
    /\ pc = "sleep" /\ timer = 0
    /\ pc' = "connecting"
    /\ UNCHANGED <<clock, device_last_ok, last, callVars, timer, hs_sent, received, clientFrame>>

HeadlessNext ==
    \/ Tick
    \/ ClientStart \/ ClientConnectOk \/ ClientConnectFail \/ ClientSendOk \/ ClientSendFail
    \/ ClientRecv \/ ClientRecvBad \/ ClientRecvError \/ ClientRecvClose
    \/ ClientSleepTick \/ ClientWake

SpecHeadless == Init /\ [][HeadlessNext]_vars

----------------------------------------------------------------------------
(* Properties of the transport and the queue *)

IsEvent(item) == item.kind = "event"
\* the messages of the event items of a queue, in order
EventIds(q) == [i \in 1..Len(SelectSeq(q, IsEvent)) |-> SelectSeq(q, IsEvent)[i].id]

\* C4: every message put as an event item and taken from the queue has been
\* passed to MonitorLogic.handle, once and in the order of the puts.
C4_ConsumedInOrder == produced = logic_handled \o EventIds(queue)

\* C6: while stop is not requested, every connection error puts a
\* disconnected status and starts the 5 s delay; the delay is left only when
\* it is over, and then for a new connection attempt; run() returns only on
\* a stop request; and after a failure a new attempt always follows.
C6_RetriesForever ==
    /\ [][(Runnable /\ pc \in {"connecting", "send1", "send2", "send3", "recv"} /\ pc' = "sleep") =>
              /\ queue' = Append(queue, conn_item("disconnected"))
              /\ timer' = RECONNECT_DELAY]_vars
    /\ [][(Runnable /\ pc = "sleep" /\ pc' # "sleep") =>
              /\ timer = 0
              /\ ~stop_set => pc' = "connecting"]_vars
    /\ [](pc = "returned" => stop_set)
    /\ (Runnable /\ pc = "sleep" /\ ~stop_set) ~> (pc = "connecting" \/ stop_set)

\* the second attempt after a failed one: the delay has run and the
\* disconnected status is in the queue
C6_Witness ==
    /\ Runnable /\ pc = "connecting" /\ ~stop_set /\ timer = 0
    /\ queue = <<conn_item("disconnected")>>

\* C7: once stop has been requested and the transport thread has ended,
\* run() has left its loop by returning.
C7_StopExitsRun ==
    (stop_set /\ ~thread_alive /\ pc # "idle") => (pc = "returned" /\ ~abandoned)

\* C5: a message handled while a sink call fails (the notification or the
\* incident-log append raises) does not end the handler by an exception and
\* leaves the connection open, in the receive loop.
C5_SinkFailureContained ==
    [][(handled' = handled + 1 /\ call'.fault # "none") => (~raised' /\ pc' = "recv")]_vars

\* an item has just been put at the end of the queue
JustPut(item) == queue' = Append(queue, item)

\* C14: the commands sent on a connection are initialize, get_devices,
\* get_stations in this order; the connected status is put exactly by the step
\* that completes the third send and enters the receive loop, so after all
\* three sends and before any event item of the connection; a failed send
\* puts only the disconnected status.
C14_HandshakeThenConnected ==
    /\ [](hs_sent \in {<< >>, <<"initialize">>, <<"initialize", "get_devices">>,
                       <<"initialize", "get_devices", "get_stations">>})
    /\ [][JustPut(conn_item("connected")) <=> (Runnable /\ pc = "send3" /\ pc' = "recv")]_vars
    /\ [][JustPut(conn_item("connected")) =>
              hs_sent' = <<"initialize", "get_devices", "get_stations">>]_vars
    /\ [][produced' # produced => (pc = "recv" /\ pc' = "recv" /\ Len(hs_sent) = 3)]_vars
    /\ [][(pc \in {"send1", "send2", "send3"} /\ pc' = "sleep") =>
              JustPut(conn_item("disconnected"))]_vars

\* a connection has put its connected status and then its first event
C14_Witness ==
    /\ Runnable /\ pc = "recv" /\ hs_sent = <<"initialize", "get_devices", "get_stations">>
    /\ queue = <<conn_item("connected"), event_item(1)>>

\* C16: in the headless monitor, when the message handled last appended a
\* 'Device offline' incident for a device, the next message, an update of
\* the same device without a true online hint, appends no second one.
C16_OfflineOnlyOnTransition ==
    [][(/\ handled' = handled + 1
        /\ call.branch = "update" /\ OfflineIncidents(added) # {}
        /\ call'.branch = "update" /\ call'.sn = call.sn /\ call'.hint # True) =>
          OfflineIncidents(added') = {}]_vars

\* C19: at most one transport thread is alive at any time, and start_ws
\* starts one only when none is alive.
C19_AtMostOneTransport ==
    /\ [](running <= 1 /\ (thread_alive <=> running = 1))
    /\ [][running' > running => (running = 0 /\ ~thread_alive)]_vars

\* a second transport has just been started (run() not yet begun) after the
\* first, which had sent its handshake, was stopped and ended
C19_Witness ==
    /\ running = 1 /\ thread_alive /\ pc = "start" /\ ~stop_set
    /\ status = "Laczenie" /\ Len(hs_sent) = 3

\* C20: once stop_ws has run for the current transport, and until start_ws
\* starts a new one (which clears the stop request), the status shown is not
\* the connected one.
C20_StaysDisconnectedAfterStop ==
    (stop_set /\ gui # "stopping") => status # "Polaczono"

\* C21: in the statuses one run() puts, a connected status never directly
\* follows a connected status: a disconnected status (and with it the 5 s
\* delay) lies between them.
C21_DisconnectedBetweenConnected ==
    [][JustPut(conn_item("connected")) => last_report # "connected"]_vars

====
